---- MODULE Spec2Model ----
(***************************************************************************)
(* Model of the program registry front end (dpc/src/program/program.rs)   *)
(* and of the outer constraint-synthesis routine                           *)
(* (dpc/src/circuits/outer_circuit.rs).                                    *)
(*                                                                         *)
(* Values of the collaborating crates (digests, keys, proofs, commitments)*)
(* are byte sequences or small numbers; the hash and commitment           *)
(* primitives are idealised as injective functions, the proof systems as  *)
(* sound and complete ones.                                                *)
(***************************************************************************)
EXTENDS Integers, Sequences, FiniteSets, TLC

VARIABLES
    program,        \* Program: the Arc'd circuit tree (a sequence of circuits)
    debug_build,    \* whether debug assertions are compiled in
    ret,            \* outcome of the last Program::execute / execute_blank call
    public,         \* OuterPublicVariables of the synthesis run
    private,        \* OuterPrivateVariables of the synthesis run
    pc,             \* position of execute_outer_circuit
    index,          \* loop counter of the per-record loop
    cs,             \* the constraint system being populated
    fe,             \* local gadget variables of execute_outer_circuit
    result,         \* return value of execute_outer_circuit
    fault,          \* the step whose gadget call returns a synthesis error, if any
    tampered,       \* whether an assignment of the finished system was replaced
    callers,        \* per concurrent caller of the shared Program: call in progress, locals, result
    strong_count    \* strong reference count of the Arc around the circuit tree

vars == <<program, debug_build, ret, public, private, pc, index, cs, fe, result, fault, tampered,
          callers, strong_count>>

programVars == <<program, debug_build, ret>>
outerVars == <<public, private, pc, index, cs, fe, result, fault, tampered>>
sharedVars == <<callers, strong_count>>

----------------------------------------------------------------------------
(* Bounds of the model *)

\* depth of the program circuit tree: 2^depth leaves
PROGRAM_TREE_DEPTH == 1
\* number of distinct circuits (verifying keys 1..MaxCircuits) that exist
MaxCircuits == 3
\* the transaction shape of the network: old records (serial numbers), new
\* records (commitments), and program proofs the outer circuit checks
NUM_INPUT_RECORDS == 2
NUM_OUTPUT_RECORDS == 2
NUM_TOTAL_RECORDS == 2

----------------------------------------------------------------------------
(* Generic helpers *)

None == <<>>
Some(x) == <<x>>

RECURSIVE Pow2(_)
Pow2(n) == IF n = 0 THEN 1 ELSE 2 * Pow2(n - 1)

RECURSIVE Flatten(_)
Flatten(ss) == IF ss = <<>> THEN <<>> ELSE Head(ss) \o Flatten(Tail(ss))

SeqsUpTo(S, n) == UNION {[1..k -> S] : k \in 0..n}

Range(s) == {s[i] : i \in DOMAIN s}

----------------------------------------------------------------------------
(* Keys, circuit identifiers and the program circuit tree *)

VerifyingKeys == 1..MaxCircuits

\* number of bits of the minimal-bit encoding of a verifying key
VkBits == 3

\* ToMinimalBitsGadget::to_minimal_bits of a verifying key: little-endian bits
ToMinimalBits(vk) == [i \in 1..VkBits |-> (vk \div Pow2(i - 1)) % 2]

RECURSIVE FromBitsLE(_)
FromBitsLE(bits) == IF bits = <<>> THEN 0 ELSE Head(bits) + 2 * FromBitsLE(Tail(bits))

\* the program circuit ID CRH on bits: collision-free on the modelled keys
ProgramCircuitIDCRH(bits) == (5 * FromBitsLE(bits) + 3) % 11

\* the inner circuit ID CRH on bits: collision-free on the modelled keys
InnerCircuitIDCRH(bits) == (7 * FromBitsLE(bits) + 2) % 11

\* ToBytesGadget::to_bytes of a digest
DigestToBytes(d) == <<d>>

\* ProgramCircuit::circuit_id of the circuit with verifying key vk
CircuitIdOf(vk) == ProgramCircuitIDCRH(ToMinimalBits(vk))

\* a ProgramCircuit: its identifier and its verifying key
Circuit(vk) == [circuit_id |-> CircuitIdOf(vk), verifying_key |-> vk]

\* every identifier a caller may ask for: those of the circuits, and one of none
CircuitIds == {CircuitIdOf(vk) : vk \in VerifyingKeys} \cup {0}

\* the two-to-one tree CRH: collision-free (nodes of one level have one length)
ProgramCircuitIDTreeCRH(l, r) == l \o r

EmptyLeaf == <<255>>

TreeCapacity == Pow2(PROGRAM_TREE_DEPTH)

\* the leaves of the tree, padded with empty leaves
TreeLeaves(circuits) ==
    [i \in 1..TreeCapacity |->
        IF i <= Len(circuits) THEN DigestToBytes(circuits[i].circuit_id) ELSE EmptyLeaf]

\* hash of the subtree over leaves lo..hi (1-based)
RECURSIVE Subtree(_, _, _)
Subtree(leaves, lo, hi) ==
    IF lo = hi THEN leaves[lo]
    ELSE LET mid == lo + (hi - lo + 1) \div 2 - 1
         IN ProgramCircuitIDTreeCRH(Subtree(leaves, lo, mid), Subtree(leaves, mid + 1, hi))

\* ProgramCircuitTree::to_program_id: the Merkle root
ToProgramId(circuits) == Subtree(TreeLeaves(circuits), 1, TreeCapacity)

\* ProgramCircuitTree::add_all: fails on overflow of the tree and on duplicates
AddAll(vks) ==
    IF Len(vks) > TreeCapacity \/ Cardinality(Range(vks)) # Len(vks)
    THEN None
    ELSE Some([i \in 1..Len(vks) |-> Circuit(vks[i])])

\* ProgramCircuitTree::get_circuit
GetCircuit(circuits, circuit_id) ==
    IF \E i \in DOMAIN circuits : circuits[i].circuit_id = circuit_id
    THEN Some(circuits[CHOOSE i \in DOMAIN circuits : circuits[i].circuit_id = circuit_id])
    ELSE None

\* ProgramCircuitTree::find_circuit_by_index
FindCircuitByIndex(circuits, circuit_index) ==
    IF circuit_index + 1 \in DOMAIN circuits THEN Some(circuits[circuit_index + 1]) ELSE None

\* ProgramCircuitTree::contains_circuit
ContainsCircuit(circuits, circuit_id) == GetCircuit(circuits, circuit_id) # None

\* the sibling of the node on level k (0 = leaves) above leaf number i (0-based)
Sibling(leaves, i, k) ==
    LET width == Pow2(k)
        node == i \div width
        sib == IF node % 2 = 0 THEN node + 1 ELSE node - 1
    IN Subtree(leaves, sib * width + 1, (sib + 1) * width)

\* ProgramCircuitTree::get_program_path: the authentication path, or missing leaf
GetProgramPath(circuits, circuit_id) ==
    IF \E i \in DOMAIN circuits : circuits[i].circuit_id = circuit_id
    THEN LET i == (CHOOSE j \in DOMAIN circuits : circuits[j].circuit_id = circuit_id) - 1
         IN Some([leaf_index |-> i,
                  path |-> [k \in 1..PROGRAM_TREE_DEPTH |->
                               Sibling(TreeLeaves(circuits), i, k - 1)]])
    ELSE None

\* MerklePath root recomputation from a leaf (also MerklePathGadget::calculate_root)
RECURSIVE WalkPath(_, _, _)
WalkPath(cur, path, k) ==
    IF k > Len(path.path) THEN cur
    ELSE LET bit == (path.leaf_index \div Pow2(k - 1)) % 2
         IN WalkPath(IF bit = 0 THEN ProgramCircuitIDTreeCRH(cur, path.path[k])
                                ELSE ProgramCircuitIDTreeCRH(path.path[k], cur),
                     path, k + 1)

CalculateRoot(path, leaf_bytes) == WalkPath(leaf_bytes, path, 1)

\* MerklePath::verify(root, leaf)
PathVerify(path, root, circuit_id) == CalculateRoot(path, DigestToBytes(circuit_id)) = root

----------------------------------------------------------------------------
(* Field encoder *)

\* number of bytes one field element holds
FieldCapacity == 2

Bytes == 0..255

\* a byte string that has no encoding as field elements
Unencodable == <<256>>

IsEncodable(v) == \A i \in DOMAIN v : v[i] \in Bytes

\* ToConstraintField::to_field_elements of a byte string: the bytes, packed
\* FieldCapacity to a field element (a field element is the chunk it packs)
RECURSIVE PackBytes(_)
PackBytes(bytes) ==
    IF Len(bytes) <= FieldCapacity THEN <<bytes>>
    ELSE <<SubSeq(bytes, 1, FieldCapacity)>>
             \o PackBytes(SubSeq(bytes, FieldCapacity + 1, Len(bytes)))

ToFieldElements(v) == IF IsEncodable(v) THEN Some(PackBytes(v)) ELSE None

\* Field::from of a small integer: the field element of that value
FieldFrom(n) == <<n>>

\* little-endian bits of a byte
ByteBitsLE(b) == [i \in 1..8 |-> (b \div Pow2(i - 1)) % 2]

\* ToBitsLEGadget::to_bits_le of a list of field elements
ToBitsLE(fes) == Flatten([i \in DOMAIN fes |->
                     Flatten([j \in DOMAIN fes[i] |-> ByteBitsLE(fes[i][j])])])

----------------------------------------------------------------------------
(* The program proof system and the circuits of a program *)

\* the input a program proof speaks about: the record position, then the
\* local data root
ProgramInput(position, local_data_root_fes) == <<FieldFrom(position)>> \o local_data_root_fes

\* SNARK::prove of the program proof system (idealised: the proof names its statement)
ProgramProve(vk, input) == [vk |-> vk, input |-> input]

\* SNARK::verify of the program proof system
ProgramVerify(vk, input, proof) == proof = ProgramProve(vk, input)

\* the local data roots a caller may supply
LocalDataRoots == {<<7>>, <<9>>}

\* PublicVariables of a program circuit
ProgramPublics == [position : 0..1, local_data_root : LocalDataRoots]

\* PrivateVariables of a program circuit: whether they satisfy the circuit
ProgramPrivates == [satisfying : BOOLEAN]

\* ProgramCircuit::execute: the real proving routine
CircuitExecute(circuit, pub, priv) ==
    IF priv.satisfying
    THEN Some(ProgramProve(circuit.verifying_key,
                           ProgramInput(pub.position, ToFieldElements(pub.local_data_root)[1])))
    ELSE None

\* ProgramCircuit::execute_blank: the placeholder proving routine
CircuitExecuteBlank(circuit) ==
    Some(ProgramProve(circuit.verifying_key, ProgramInput(0, PackBytes(<<0>>))))

----------------------------------------------------------------------------
(* Program (dpc/src/program/program.rs) *)

\* Program::new
New(vks) == IF AddAll(vks) = None THEN None ELSE Some([circuits |-> AddAll(vks)[1]])

\* Program::program_id
ProgramId(prog) == ToProgramId(prog.circuits)

Return(op, circuit_id, status, execution, calls) ==
    [op |-> op, circuit_id |-> circuit_id, args |-> None, status |-> status,
     execution |-> execution, calls |-> calls]

NoCall == Return("none", 0, "none", None, <<>>)

\* The body shared by the two entry points after the circuit was found:
\* `prove` is the outcome of the proving routine the entry point runs.
Package(prog, dbg, op, circuit_id, circuit, routine, prove) ==
    IF dbg /\ circuit.circuit_id # circuit_id
    THEN Return(op, circuit_id, "Panic", None, <<"get_circuit">>)
    ELSE LET program_path == GetProgramPath(prog.circuits, circuit_id) IN
         IF program_path = None
         THEN Return(op, circuit_id, "MissingLeaf", None, <<"get_circuit", "get_program_path">>)
         ELSE IF dbg /\ ~PathVerify(program_path[1], ProgramId(prog), circuit_id)
         THEN Return(op, circuit_id, "Panic", None, <<"get_circuit", "get_program_path">>)
         ELSE IF prove = None
         THEN Return(op, circuit_id, "ProofError", None,
                     <<"get_circuit", "get_program_path", routine>>)
         ELSE Return(op, circuit_id, "Ok",
                     Some([program_path |-> program_path[1],
                           verifying_key |-> circuit.verifying_key,
                           proof |-> prove[1]]),
                     <<"get_circuit", "get_program_path", routine>>)

\* Program::execute, had it fetched the membership path before looking at the
\* outcome of the lookup
ExecuteCallPathFirst(prog, dbg, circuit_id, pub, priv) ==
    LET found == GetCircuit(prog.circuits, circuit_id)
        program_path == GetProgramPath(prog.circuits, circuit_id) IN
    IF program_path = None \/ found = None
    THEN Return("execute", circuit_id, "MissingLeaf", None,
                <<"get_circuit", "get_program_path">>)
    ELSE Package(prog, dbg, "execute", circuit_id, found[1], "execute",
                 CircuitExecute(found[1], pub, priv))

\* Program::execute, had it run the placeholder proving routine
ExecuteCallBlankProof(prog, dbg, circuit_id, pub, priv) ==
    LET found == GetCircuit(prog.circuits, circuit_id) IN
    IF found = None
    THEN Return("execute", circuit_id, "MissingLeaf", None, <<"get_circuit">>)
    ELSE Package(prog, dbg, "execute", circuit_id, found[1], "execute",
                 CircuitExecuteBlank(found[1]))

\* Program::execute
ExecuteCall(prog, dbg, circuit_id, pub, priv) ==
    LET found == GetCircuit(prog.circuits, circuit_id) IN
    IF found = None
    THEN Return("execute", circuit_id, "MissingLeaf", None, <<"get_circuit">>)
    ELSE Package(prog, dbg, "execute", circuit_id, found[1], "execute",
                 CircuitExecute(found[1], pub, priv))

\* Program::execute_blank
ExecuteBlankCall(prog, dbg, circuit_id) ==
    LET found == GetCircuit(prog.circuits, circuit_id) IN
    IF found = None
    THEN Return("execute_blank", circuit_id, "MissingLeaf", None, <<"get_circuit">>)
    ELSE Package(prog, dbg, "execute_blank", circuit_id, found[1], "execute_blank",
                 CircuitExecuteBlank(found[1]))

\* a caller runs Program::execute (ret.args keeps the variables it supplied)
Execute ==
    \E circuit_id \in CircuitIds, pub \in ProgramPublics, priv \in ProgramPrivates :
        /\ ret' = [ExecuteCall(program, debug_build, circuit_id, pub, priv)
                      EXCEPT !.args = Some([public |-> pub, private |-> priv])]
        /\ UNCHANGED <<program, debug_build, outerVars, sharedVars>>

\* a caller runs Program::execute_blank
ExecuteBlank ==
    \E circuit_id \in CircuitIds :
        /\ ret' = ExecuteBlankCall(program, debug_build, circuit_id)
        /\ UNCHANGED <<program, debug_build, outerVars, sharedVars>>

----------------------------------------------------------------------------
(* The inner proof system and the program commitment scheme *)

\* SNARK::prove of the inner proof system (idealised: the proof names its statement)
InnerProve(vk, input) == [vk |-> vk, input |-> input]

\* SNARK::verify of the inner proof system
InnerVerify(vk, input, proof) == proof = InnerProve(vk, input)

\* the program commitment scheme, binding: injective in message and randomness
Commit(bytes, randomness) ==
    [i \in DOMAIN bytes |-> (bytes[i] + randomness) % 256] \o <<randomness>>

\* to_le_bytes of an integer of `width` bytes (two's complement)
RECURSIVE IntToLeBytes(_, _)
IntToLeBytes(n, width) ==
    IF width = 0 THEN <<>> ELSE <<n % 256>> \o IntToLeBytes(n \div 256, width - 1)

\* InnerPublicVariables::to_field_elements: the input the inner proof is
\* generated against, outside the outer circuit
InnerPublicInput(pub, program_commitment, local_data_root) ==
    Flatten(<<
        PackBytes(pub.ledger_digest),
        Flatten([i \in DOMAIN pub.serial_numbers |-> PackBytes(pub.serial_numbers[i])]),
        Flatten([i \in DOMAIN pub.commitments |->
                    PackBytes(pub.commitments[i]) \o PackBytes(pub.encrypted_record_hashes[i])]),
        PackBytes(program_commitment),
        PackBytes(pub.memo),
        PackBytes(IntToLeBytes(pub.network_id, 2)),
        PackBytes(local_data_root),
        PackBytes(IntToLeBytes(pub.value_balance, 8)) >>)

----------------------------------------------------------------------------
(* The constraint system *)

\* an empty constraint system: the allocated variables, in allocation order,
\* each with its kind and its assigned value, and the constraints
EmptyCS == [vars |-> <<>>, constraints |-> <<>>]

Var(name, kind, value) == [name |-> name, kind |-> kind, value |-> value]

\* allocate the variables `names` of one kind with the values `values`
Alloc(c, names, kind, values) ==
    [c EXCEPT !.vars = @ \o [j \in DOMAIN names |-> Var(names[j], kind, values[j])]]

Enforce(c, constraint) == [c EXCEPT !.constraints = Append(@, constraint)]

VarIndex(c, name) == CHOOSE i \in DOMAIN c.vars : c.vars[i].name = name

\* the value assigned to a variable, and to a list of variables
Val(c, name) == c.vars[VarIndex(c, name)].value
Vals(c, names) == [j \in DOMAIN names |-> Val(c, names[j])]

\* the names of the field elements of one value
FieldNames(name, n) == [j \in 1..n |-> <<name[1], name[2], j - 1>>]

Allocated(ok, c, gadget) == [ok |-> ok, cs |-> c, gadget |-> gadget]

\* alloc_inner_snark_field_element, had it bound the elements as public inputs
AllocInnerSnarkFieldElementAsInput(c, var, name) ==
    LET field_elements == ToFieldElements(var) IN
    IF field_elements = None THEN Allocated(FALSE, c, <<>>)
    ELSE LET names == FieldNames(name, Len(field_elements[1]))
         IN Allocated(TRUE, Alloc(c, names, "input", field_elements[1]), names)

\* alloc_inner_snark_field_element: the elements of a value as witnesses
AllocInnerSnarkFieldElement(c, var, name) ==
    LET field_elements == ToFieldElements(var) IN
    IF field_elements = None THEN Allocated(FALSE, c, <<>>)
    ELSE LET names == FieldNames(name, Len(field_elements[1]))
         IN Allocated(TRUE, Alloc(c, names, "witness", field_elements[1]), names)

\* alloc_inner_snark_input_field_element: the elements of a value, each
\* allocated by its own alloc_input, then merged
AllocInnerSnarkInputFieldElement(c, var, name) ==
    LET field_elements == ToFieldElements(var) IN
    IF field_elements = None THEN Allocated(FALSE, c, <<>>)
    ELSE LET names == FieldNames(name, Len(field_elements[1]))
         IN Allocated(TRUE, Alloc(c, names, "input", field_elements[1]), names)

\* alloc_program_snark_field_element: the elements of a value as witnesses
\* of the program proof system's input gadget
AllocProgramSnarkFieldElement(c, var, name) ==
    LET field_elements == ToFieldElements(var) IN
    IF field_elements = None THEN Allocated(FALSE, c, <<>>)
    ELSE LET names == FieldNames(name, Len(field_elements[1]))
         IN Allocated(TRUE, Alloc(c, names, "witness", field_elements[1]), names)

\* the candidate program identifier of a record: the root recomputed from its
\* membership path and the hash of its verifying key, as bytes
ClaimedProgramIdBytes(vk, path) ==
    CalculateRoot(path, DigestToBytes(ProgramCircuitIDCRH(ToMinimalBits(vk))))

\* whether the assignment of c satisfies one constraint of c
Holds(c, con) ==
    CASE con.kind = "local data root equality" ->
            ToBitsLE(Vals(c, con.left)) = ToBitsLE(Vals(c, con.right))
      [] con.kind = "inner proof" ->
            InnerVerify(Val(c, con.vk), Vals(c, con.input), Val(c, con.proof))
      [] con.kind = "program proof" ->
            ProgramVerify(Val(c, con.vk), Vals(c, con.input), Val(c, con.proof))
      [] con.kind = "program commitment" ->
            Commit(Flatten([k \in DOMAIN con.ids |->
                               ClaimedProgramIdBytes(Val(c, con.ids[k].vk),
                                                     Val(c, con.ids[k].path))]),
                   Val(c, con.randomness)) = Val(c, con.given)
      [] con.kind = "inner circuit id" ->
            InnerCircuitIDCRH(ToMinimalBits(Val(c, con.vk))) = Val(c, con.given)

\* whether the assignment of c satisfies all constraints of c
Satisfied(c) == \A i \in DOMAIN c.constraints : Holds(c, c.constraints[i])

----------------------------------------------------------------------------
(* execute_outer_circuit (dpc/src/circuits/outer_circuit.rs) *)

\* the locals of execute_outer_circuit: each gadget is the list of the
\* variables it is made of
NoLocals ==
    [ledger_digest_fe |-> <<>>, serial_number_fe |-> <<>>,
     commitment_and_encrypted_record_hash_fe |-> <<>>, memo_fe |-> <<>>,
     network_id_fe |-> <<>>, value_balance_fe |-> <<>>, program_commitment_fe |-> <<>>,
     local_data_root_fe_inner_snark |-> <<>>, local_data_root_fe_program_snark |-> <<>>,
     inner_snark_input |-> <<>>, program_ids |-> <<>>]

Min(a, b) == IF a < b THEN a ELSE b

\* allocate the values of `items` in order as public inputs and merge them;
\* stops at the first value that has no encoding
RECURSIVE AllocInputs(_, _, _)
AllocInputs(c, items, gadget) ==
    IF items = <<>> THEN Allocated(TRUE, c, gadget)
    ELSE LET a == AllocInnerSnarkInputFieldElement(c, Head(items).var, Head(items).name)
         IN IF a.ok THEN AllocInputs(a.cs, Tail(items), gadget \o a.gadget)
                    ELSE Allocated(FALSE, a.cs, <<>>)

\* the synthesis error a failed step returns; nothing runs after it
Abort(c, error) ==
    /\ pc' = "aborted"
    /\ result' = error
    /\ cs' = c
    /\ UNCHANGED <<fe, index>>

\* a step that allocates, had the error of the encoding not been propagated
\* at once
AllocStepGoesOn(a, local, next) ==
    /\ cs' = a.cs
    /\ fe' = [fe EXCEPT ![local] = a.gadget]
    /\ pc' = next
    /\ result' = IF a.ok THEN result ELSE "AssignmentMissing"
    /\ UNCHANGED index

\* a step that allocates: on success the locals are updated and the next
\* step is due, on a value without encoding synthesis ends
AllocStep(a, local, next) ==
    IF a.ok
    THEN /\ cs' = a.cs
         /\ fe' = [fe EXCEPT ![local] = a.gadget]
         /\ pc' = next
         /\ UNCHANGED <<result, index>>
    ELSE Abort(a.cs, "AssignmentMissing")

Frame == UNCHANGED <<programVars, sharedVars, public, private, fault, tampered>>

\* lines 92-110: the parameters of the commitment scheme and of the three CRHs
DeclareParameters ==
    /\ pc = "parameters"
    /\ IF fault = pc THEN Abort(cs, "SynthesisError")
       ELSE /\ cs' = Alloc(cs, << <<"program_id_commitment_parameters", 0, 0>>,
                                  <<"program_circuit_id_crh_parameters", 0, 0>>,
                                  <<"program_circuit_id_tree_crh_parameters", 0, 0>>,
                                  <<"inner_circuit_id_crh_parameters", 0, 0>> >>,
                           "constant", [j \in 1..4 |-> "parameters"])
            /\ pc' = "ledger digest"
            /\ UNCHANGED <<fe, result, index>>
    /\ Frame

\* lines 118-119
AllocLedgerDigest ==
    /\ pc = "ledger digest"
    /\ AllocStep(AllocInnerSnarkInputFieldElement(cs, public.ledger_digest,
                                                  <<"ledger digest", 0>>),
                 "ledger_digest_fe", "serial numbers")
    /\ Frame

\* lines 121-134
AllocSerialNumbers ==
    /\ pc = "serial numbers"
    /\ AllocStep(AllocInputs(cs, [i \in DOMAIN public.serial_numbers |->
                                     [var |-> public.serial_numbers[i],
                                      name |-> <<"serial number", i - 1>>]], <<>>),
                 "serial_number_fe", "commitments")
    /\ Frame

\* lines 136-162: the commitments zipped with the encrypted record hashes
AllocCommitmentsAndHashes ==
    /\ pc = "commitments"
    /\ AllocStep(AllocInputs(cs, Flatten([i \in DOMAIN public.commitments |->
                                     << [var |-> public.commitments[i],
                                         name |-> <<"commitment", i - 1>>],
                                        [var |-> public.encrypted_record_hashes[i],
                                         name |-> <<"encrypted_record_hash", i - 1>>] >>]),
                             <<>>),
                 "commitment_and_encrypted_record_hash_fe", "memo")
    /\ Frame

\* line 164
AllocMemo ==
    /\ pc = "memo"
    /\ AllocStep(AllocInnerSnarkInputFieldElement(cs, public.memo, <<"memo", 0>>),
                 "memo_fe", "network id")
    /\ Frame

\* lines 166-170
AllocNetworkId ==
    /\ pc = "network id"
    /\ AllocStep(AllocInnerSnarkInputFieldElement(cs, IntToLeBytes(public.network_id, 2),
                                                  <<"network id", 0>>),
                 "network_id_fe", "value balance")
    /\ Frame

\* lines 172-176
AllocValueBalance ==
    /\ pc = "value balance"
    /\ AllocStep(AllocInnerSnarkInputFieldElement(cs, IntToLeBytes(public.value_balance, 8),
                                                  <<"value balance", 0>>),
                 "value_balance_fe", "program commitment")
    /\ Frame

\* lines 178-179
AllocProgramCommitment ==
    /\ pc = "program commitment"
    /\ AllocStep(AllocInnerSnarkFieldElement(cs, private.program_commitment,
                                             <<"program commitment", 0>>),
                 "program_commitment_fe", "local data root inner snark")
    /\ Frame

\* lines 181-182
AllocLocalDataRootInner ==
    /\ pc = "local data root inner snark"
    /\ AllocStep(AllocInnerSnarkFieldElement(cs, private.local_data_root,
                                             <<"local data root inner snark", 0>>),
                 "local_data_root_fe_inner_snark", "local data root program snark")
    /\ Frame

\* lines 184-185
AllocLocalDataRootProgram ==
    /\ pc = "local data root program snark"
    /\ AllocStep(AllocProgramSnarkFieldElement(cs, private.local_data_root,
                                               <<"local data root program snark", 0>>),
                 "local_data_root_fe_program_snark", "local data root equality")
    /\ Frame

\* lines 187-197, had the bits of the inner allocation been compared with
\* themselves
EnforceLocalDataRootEqualitySameSide ==
    /\ pc = "local data root equality"
    /\ IF fault = pc THEN Abort(cs, "SynthesisError")
       ELSE /\ cs' = Enforce(cs, [kind |-> "local data root equality",
                                  left |-> fe.local_data_root_fe_inner_snark,
                                  right |-> fe.local_data_root_fe_inner_snark])
            /\ pc' = "inner snark input"
            /\ UNCHANGED <<fe, result, index>>
    /\ Frame

\* lines 187-197: the bits of the two allocations are enforced equal
EnforceLocalDataRootEquality ==
    /\ pc = "local data root equality"
    /\ IF fault = pc THEN Abort(cs, "SynthesisError")
       ELSE /\ cs' = Enforce(cs, [kind |-> "local data root equality",
                                  left |-> fe.local_data_root_fe_inner_snark,
                                  right |-> fe.local_data_root_fe_program_snark])
            /\ pc' = "inner snark input"
            /\ UNCHANGED <<fe, result, index>>
    /\ Frame

\* lines 199-209, had the memo been merged before the program commitment
MergeInnerSnarkInputMemoFirst ==
    /\ pc = "inner snark input"
    /\ IF fault = pc THEN Abort(cs, "SynthesisError")
       ELSE /\ fe' = [fe EXCEPT !.inner_snark_input =
                         Flatten(<< fe.ledger_digest_fe,
                                    fe.serial_number_fe,
                                    fe.commitment_and_encrypted_record_hash_fe,
                                    fe.memo_fe,
                                    fe.program_commitment_fe,
                                    fe.network_id_fe,
                                    fe.local_data_root_fe_inner_snark,
                                    fe.value_balance_fe >>)]
            /\ pc' = "inner proof"
            /\ UNCHANGED <<cs, result, index>>
    /\ Frame

\* lines 199-209: the input of the inner proof, merged in the protocol's order
MergeInnerSnarkInput ==
    /\ pc = "inner snark input"
    /\ IF fault = pc THEN Abort(cs, "SynthesisError")
       ELSE /\ fe' = [fe EXCEPT !.inner_snark_input =
                         Flatten(<< fe.ledger_digest_fe,
                                    fe.serial_number_fe,
                                    fe.commitment_and_encrypted_record_hash_fe,
                                    fe.program_commitment_fe,
                                    fe.memo_fe,
                                    fe.network_id_fe,
                                    fe.local_data_root_fe_inner_snark,
                                    fe.value_balance_fe >>)]
            /\ pc' = "inner proof"
            /\ UNCHANGED <<cs, result, index>>
    /\ Frame

\* lines 215-230, had the check of the proof been evaluated during synthesis
\* and a failing proof been reported as an error
VerifyInnerProofEagerly ==
    /\ pc = "inner proof"
    /\ IF fault = pc
          \/ ~InnerVerify(private.inner_snark_vk, Vals(cs, fe.inner_snark_input),
                          private.inner_snark_proof)
       THEN Abort(cs, "SynthesisError")
       ELSE /\ cs' = Enforce(Alloc(cs, << <<"inner vk", 0, 0>>, <<"inner proof", 0, 0>> >>,
                                   "witness",
                                   <<private.inner_snark_vk, private.inner_snark_proof>>),
                             [kind |-> "inner proof",
                              vk |-> <<"inner vk", 0, 0>>,
                              input |-> fe.inner_snark_input,
                              proof |-> <<"inner proof", 0, 0>>])
            /\ pc' = "programs"
            /\ UNCHANGED <<fe, result, index>>
    /\ Frame

\* lines 215-230: the inner verifying key and proof, and the proof's check
VerifyInnerProof ==
    /\ pc = "inner proof"
    /\ IF fault = pc THEN Abort(cs, "SynthesisError")
       ELSE /\ cs' = Enforce(Alloc(cs, << <<"inner vk", 0, 0>>, <<"inner proof", 0, 0>> >>,
                                   "witness",
                                   <<private.inner_snark_vk, private.inner_snark_proof>>),
                             [kind |-> "inner proof",
                              vk |-> <<"inner vk", 0, 0>>,
                              input |-> fe.inner_snark_input,
                              proof |-> <<"inner proof", 0, 0>>])
            /\ pc' = "programs"
            /\ UNCHANGED <<fe, result, index>>
    /\ Frame

\* the number of iterations of the loop of line 237
ProgramLoopBound == Min(Len(private.program_proofs), NUM_TOTAL_RECORDS)

\* lines 237-288, had every record been given the position of the first one
CheckProgramRecordFixedPosition ==
    /\ pc = "programs"
    /\ index < ProgramLoopBound
    /\ IF fault = pc THEN Abort(cs, "SynthesisError")
       ELSE LET input == private.program_proofs[index + 1]
                proof == <<"program proof", index, 0>>
                vk == <<"program vk", index, 0>>
                path == <<"program path", index, 0>>
                position_fe == <<"position", index, 0>>
                c1 == Alloc(cs, <<proof, vk, path>>, "witness",
                            <<input.proof, input.verifying_key, input.program_path>>)
                c2 == Alloc(c1, <<position_fe>>, "constant", <<FieldFrom(0)>>)
                program_input == <<position_fe>> \o fe.local_data_root_fe_program_snark
            IN /\ cs' = Enforce(c2, [kind |-> "program proof", vk |-> vk,
                                     input |-> program_input, proof |-> proof])
               /\ fe' = [fe EXCEPT !.program_ids = Append(@, [vk |-> vk, path |-> path])]
               /\ index' = index + 1
               /\ UNCHANGED <<pc, result>>
    /\ Frame

\* lines 237-288: one iteration of the loop over the program proofs
CheckProgramRecord ==
    /\ pc = "programs"
    /\ index < ProgramLoopBound
    /\ IF fault = pc THEN Abort(cs, "SynthesisError")
       ELSE LET input == private.program_proofs[index + 1]
                proof == <<"program proof", index, 0>>
                vk == <<"program vk", index, 0>>
                path == <<"program path", index, 0>>
                position_fe == <<"position", index, 0>>
                c1 == Alloc(cs, <<proof, vk, path>>, "witness",
                            <<input.proof, input.verifying_key, input.program_path>>)
                c2 == Alloc(c1, <<position_fe>>, "constant", <<FieldFrom(index)>>)
                program_input == <<position_fe>> \o fe.local_data_root_fe_program_snark
            IN /\ cs' = Enforce(c2, [kind |-> "program proof", vk |-> vk,
                                     input |-> program_input, proof |-> proof])
               /\ fe' = [fe EXCEPT !.program_ids = Append(@, [vk |-> vk, path |-> path])]
               /\ index' = index + 1
               /\ UNCHANGED <<pc, result>>
    /\ Frame

\* lines 295-325, had the last program identifier been left out of the
\* commitment's input
CheckProgramCommitmentShort ==
    /\ pc = "programs"
    /\ index >= Min(Len(private.program_proofs), NUM_TOTAL_RECORDS)
    /\ IF fault = "program commitment check" THEN Abort(cs, "SynthesisError")
       ELSE LET randomness == <<"commitment randomness", 0, 0>>
                given == <<"commitment output", 0, 0>>
                input == SubSeq(fe.program_ids, 1, Len(fe.program_ids) - 1)
            IN /\ cs' = Enforce(Alloc(cs, <<randomness, given>>, "witness",
                                      <<private.program_randomness,
                                        private.program_commitment>>),
                                [kind |-> "program commitment", ids |-> input,
                                 randomness |-> randomness, given |-> given])
               /\ pc' = "inner circuit id"
               /\ UNCHANGED <<fe, result, index>>
    /\ Frame

\* lines 295-325: the commitment to the program identifiers of the records
CheckProgramCommitment ==
    /\ pc = "programs"
    /\ index >= ProgramLoopBound
    /\ IF fault = "program commitment check" THEN Abort(cs, "SynthesisError")
       ELSE LET randomness == <<"commitment randomness", 0, 0>>
                given == <<"commitment output", 0, 0>>
                input == SubSeq(fe.program_ids, 1, Min(Len(fe.program_ids), NUM_TOTAL_RECORDS))
            IN /\ cs' = Enforce(Alloc(cs, <<randomness, given>>, "witness",
                                      <<private.program_randomness,
                                        private.program_commitment>>),
                                [kind |-> "program commitment", ids |-> input,
                                 randomness |-> randomness, given |-> given])
               /\ pc' = "inner circuit id"
               /\ UNCHANGED <<fe, result, index>>
    /\ Frame

\* lines 333-349, had the declared identifier been allocated but not compared
CheckInnerCircuitIdUnbound ==
    /\ pc = "inner circuit id"
    /\ IF fault = pc THEN Abort(cs, "SynthesisError")
       ELSE /\ cs' = Alloc(cs, << <<"inner circuit id", 0, 0>> >>, "input",
                           <<public.inner_circuit_id>>)
            /\ pc' = "done"
            /\ result' = "Ok"
            /\ UNCHANGED <<fe, index>>
    /\ Frame

\* lines 333-349: the inner circuit identifier, a public input
CheckInnerCircuitId ==
    /\ pc = "inner circuit id"
    /\ IF fault = pc THEN Abort(cs, "SynthesisError")
       ELSE /\ cs' = Enforce(Alloc(cs, << <<"inner circuit id", 0, 0>> >>, "input",
                                   <<public.inner_circuit_id>>),
                             [kind |-> "inner circuit id",
                              vk |-> <<"inner vk", 0, 0>>,
                              given |-> <<"inner circuit id", 0, 0>>])
            /\ pc' = "done"
            /\ result' = "Ok"
            /\ UNCHANGED <<fe, index>>
    /\ Frame

\* the concurrent callers that share one Program
Callers == {"a", "b"}

\* a caller that is not inside an operation of Program and holds no clone
IdleCaller ==
    [pc |-> "idle", op |-> "none", circuit_id |-> 0, args |-> None, circuit |-> None,
     program_path |-> None, out |-> None, cloned |-> FALSE]

\* no caller has called the Program yet; the Arc has its one owner
SharedIdle ==
    /\ callers = [t \in Callers |-> IdleCaller]
    /\ strong_count = 1

\* the synthesis routine is not running
OuterIdle ==
    /\ public = None /\ private = None /\ pc = "idle" /\ index = 0
    /\ cs = None /\ fe = None /\ result = "none" /\ fault = "none" /\ tampered = FALSE

\* a program was built by Program::new; nothing was executed yet
InitProgram ==
    /\ \E vks \in SeqsUpTo(VerifyingKeys, TreeCapacity + 1) :
          /\ New(vks) # None
          /\ program = New(vks)[1]
    /\ debug_build \in BOOLEAN
    /\ ret = NoCall
    /\ OuterIdle
    /\ SharedIdle

NextProgram == Execute \/ ExecuteBlank

SpecProgram == InitProgram /\ [][NextProgram]_vars

----------------------------------------------------------------------------
(* Concurrent callers of one shared Program *)

\* caller t is between two operations
Free(t) == callers[t].pc \in {"idle", "returned"}

\* caller t leaves operation `op` with the value `out`
Returns(t, op, circuit_id, args, out) ==
    callers' = [callers EXCEPT ![t] =
                   [IdleCaller EXCEPT !.pc = "returned", !.op = op, !.circuit_id = circuit_id,
                                      !.args = args, !.out = out, !.cloned = callers[t].cloned]]

\* Program::program_id
CallProgramId(t) ==
    /\ Free(t)
    /\ Returns(t, "program_id", 0, None, ProgramId(program))
    /\ UNCHANGED <<programVars, outerVars, strong_count>>

\* Program::contains_circuit
CallContainsCircuit(t) ==
    /\ Free(t)
    /\ \E circuit_id \in CircuitIds :
          Returns(t, "contains_circuit", circuit_id, None,
                  ContainsCircuit(program.circuits, circuit_id))
    /\ UNCHANGED <<programVars, outerVars, strong_count>>

\* Program::get_circuit
CallGetCircuit(t) ==
    /\ Free(t)
    /\ \E circuit_id \in CircuitIds :
          Returns(t, "get_circuit", circuit_id, None, GetCircuit(program.circuits, circuit_id))
    /\ UNCHANGED <<programVars, outerVars, strong_count>>

\* Program::find_circuit_by_index
CallFindCircuitByIndex(t) ==
    /\ Free(t)
    /\ \E circuit_index \in 0..TreeCapacity :
          Returns(t, "find_circuit_by_index", circuit_index, None,
                  FindCircuitByIndex(program.circuits, circuit_index))
    /\ UNCHANGED <<programVars, outerVars, strong_count>>

\* Program::clone (derived): Arc::clone, one more owner of the same tree
CallClone(t) ==
    /\ Free(t)
    /\ ~callers[t].cloned
    /\ callers' = [callers EXCEPT ![t] =
                      [IdleCaller EXCEPT !.pc = "returned", !.op = "clone", !.out = program,
                                         !.cloned = TRUE]]
    /\ strong_count' = strong_count + 1
    /\ UNCHANGED <<programVars, outerVars>>

\* caller t drops the clone it holds
DropClone(t) ==
    /\ Free(t)
    /\ callers[t].cloned
    /\ callers' = [callers EXCEPT ![t].cloned = FALSE]
    /\ strong_count' = strong_count - 1
    /\ UNCHANGED <<programVars, outerVars>>

\* the public variables the concurrent callers execute with
SharedPublics == {pub \in ProgramPublics : pub.position = 0 /\ pub.local_data_root = <<7>>}

\* caller t enters Program::execute
StartExecute(t) ==
    /\ Free(t)
    /\ \E circuit_id \in CircuitIds, pub \in SharedPublics, priv \in ProgramPrivates :
          callers' = [callers EXCEPT ![t] =
                         [IdleCaller EXCEPT !.pc = "get_circuit", !.op = "execute",
                                            !.circuit_id = circuit_id,
                                            !.args = Some([public |-> pub, private |-> priv]),
                                            !.cloned = callers[t].cloned]]
    /\ UNCHANGED <<programVars, outerVars, strong_count>>

\* caller t enters Program::execute_blank
StartExecuteBlank(t) ==
    /\ Free(t)
    /\ \E circuit_id \in CircuitIds :
          callers' = [callers EXCEPT ![t] =
                         [IdleCaller EXCEPT !.pc = "get_circuit", !.op = "execute_blank",
                                            !.circuit_id = circuit_id,
                                            !.cloned = callers[t].cloned]]
    /\ UNCHANGED <<programVars, outerVars, strong_count>>

\* caller t leaves Program::execute / execute_blank with an outcome
Leaves(t, status, execution, calls) ==
    LET c == callers[t] IN
    Returns(t, c.op, c.circuit_id, c.args,
            [Return(c.op, c.circuit_id, status, execution, calls) EXCEPT !.args = c.args])

\* lines 76-80 / 97-101, had the lookup moved the circuit out of the tree
LookupCircuitTakes(t) ==
    /\ callers[t].pc = "get_circuit"
    /\ LET c == callers[t]
           found == GetCircuit(program.circuits, c.circuit_id)
       IN IF found = None
          THEN /\ Leaves(t, "MissingLeaf", None, <<"get_circuit">>)
               /\ UNCHANGED program
          ELSE /\ callers' = [callers EXCEPT ![t].pc = "get_program_path", ![t].circuit = found]
               /\ program' = [program EXCEPT !.circuits =
                                 SelectSeq(@, LAMBDA x : x.circuit_id # c.circuit_id)]
    /\ UNCHANGED <<debug_build, ret, outerVars, strong_count>>

\* lines 76-80 / 97-101: fetch the circuit from the tree
LookupCircuit(t) ==
    /\ callers[t].pc = "get_circuit"
    /\ LET c == callers[t]
           found == GetCircuit(program.circuits, c.circuit_id)
       IN IF found = None
          THEN Leaves(t, "MissingLeaf", None, <<"get_circuit">>)
          ELSE IF debug_build /\ found[1].circuit_id # c.circuit_id
          THEN Leaves(t, "Panic", None, <<"get_circuit">>)
          ELSE callers' = [callers EXCEPT ![t].pc = "get_program_path", ![t].circuit = found]
    /\ UNCHANGED <<programVars, outerVars, strong_count>>

\* lines 82-83 / 103-104: the membership path of the circuit
FetchProgramPath(t) ==
    /\ callers[t].pc = "get_program_path"
    /\ LET c == callers[t]
           program_path == GetProgramPath(program.circuits, c.circuit_id)
           calls == <<"get_circuit", "get_program_path">>
       IN IF program_path = None
          THEN Leaves(t, "MissingLeaf", None, calls)
          ELSE IF debug_build /\ ~PathVerify(program_path[1], ProgramId(program), c.circuit_id)
          THEN Leaves(t, "Panic", None, calls)
          ELSE callers' = [callers EXCEPT ![t].pc = "prove", ![t].program_path = program_path]
    /\ UNCHANGED <<programVars, outerVars, strong_count>>

\* lines 85-92 / 106-113: run the proving routine, package the execution
ProveAndPackage(t) ==
    /\ callers[t].pc = "prove"
    /\ LET c == callers[t]
           circuit == c.circuit[1]
           proof == IF c.op = "execute"
                    THEN CircuitExecute(circuit, c.args[1].public, c.args[1].private)
                    ELSE CircuitExecuteBlank(circuit)
           calls == <<"get_circuit", "get_program_path", c.op>>
       IN IF proof = None
          THEN Leaves(t, "ProofError", None, calls)
          ELSE Leaves(t, "Ok",
                      Some([program_path |-> c.program_path[1],
                            verifying_key |-> circuit.verifying_key,
                            proof |-> proof[1]]),
                      calls)
    /\ UNCHANGED <<programVars, outerVars, strong_count>>

\* a program was built by Program::new (of two circuits, or of one) and handed
\* to the callers; no call was made yet
InitShared ==
    /\ \E vks \in {<<1, 2>>, <<MaxCircuits>>} :
          /\ New(vks) # None
          /\ program = New(vks)[1]
    /\ debug_build \in BOOLEAN
    /\ ret = NoCall
    /\ OuterIdle
    /\ SharedIdle

NextShared ==
    \E t \in Callers :
        \/ CallProgramId(t)
        \/ CallContainsCircuit(t)
        \/ CallGetCircuit(t)
        \/ CallFindCircuitByIndex(t)
        \/ CallClone(t)
        \/ DropClone(t)
        \/ StartExecute(t)
        \/ StartExecuteBlank(t)
        \/ LookupCircuit(t)
        \/ FetchProgramPath(t)
        \/ ProveAndPackage(t)

SpecShared == InitShared /\ [][NextShared]_vars

----------------------------------------------------------------------------
(* The inputs of a synthesis run *)

\* the program whose circuits the records of the transaction run
BaseProgram == New(<<1, 2>>)[1]

\* the circuit the record in slot i (0-based) runs
SlotKey(i) == (i % 2) + 1

\* what Program::execute returns for the circuit with key vk, run for slot i
HonestExecution(vk, i, local_data_root) ==
    ExecuteCall(BaseProgram, FALSE, CircuitIdOf(vk),
                [position |-> i, local_data_root |-> local_data_root],
                [satisfying |-> TRUE]).execution[1]

\* an execution whose proof verifies for nothing
InvalidProof == [vk |-> 0, input |-> <<>>]

\* A correctly assembled transaction: the inner proof was generated against
\* the public variables, the program proofs by the program, the commitment
\* over the program identifiers of the records.
BaseInputs ==
    LET pub == [ledger_digest |-> <<11, 12, 13>>,
                serial_numbers |-> [i \in 1..NUM_INPUT_RECORDS |-> <<20 + i, 30 + i, 40 + i>>],
                commitments |-> [i \in 1..NUM_OUTPUT_RECORDS |-> <<50 + i>>],
                encrypted_record_hashes |-> [i \in 1..NUM_OUTPUT_RECORDS |-> <<60 + i>>],
                memo |-> <<70, 71, 72>>,
                network_id |-> 1,
                value_balance |-> -5]
        local_data_root == <<7>>
        program_randomness == 3
        program_commitment ==
            Commit(Flatten([i \in 1..NUM_TOTAL_RECORDS |-> ProgramId(BaseProgram)]),
                   program_randomness)
    IN pub @@
       [inner_circuit_id |-> InnerCircuitIDCRH(ToMinimalBits(1)),
        program_commitment |-> program_commitment,
        program_randomness |-> program_randomness,
        local_data_root |-> local_data_root,
        inner_snark_vk |-> 1,
        inner_snark_proof |->
            InnerProve(1, InnerPublicInput(pub, program_commitment, local_data_root)),
        program_proofs |-> [i \in 1..NUM_TOTAL_RECORDS |->
                               HonestExecution(SlotKey(i - 1), i - 1, local_data_root)],
        fault |-> "none"]

\* the steps whose gadget calls may return a synthesis error
FaultSteps == <<"parameters", "local data root equality", "inner snark input",
                "inner proof", "programs", "program commitment check",
                "inner circuit id">>

Swap(seq, i) == [seq EXCEPT ![i] = seq[i + 1], ![i + 1] = seq[i]]

\* The ways an input differs from the correctly assembled one.
Deviations ==
    [kind : {"none", "memo", "network id", "value balance", "ledger digest",
             "unencodable ledger digest", "unencodable memo",
             "unencodable program commitment", "unencodable local data root",
             "inner circuit id", "program commitment", "program randomness",
             "local data root", "program proofs of another local data root",
             "inner vk", "inner proof", "drop proof", "extra proof"},
     i : {1}]
    \cup [kind : {"swap serial numbers"}, i : 1..(NUM_INPUT_RECORDS - 1)]
    \cup [kind : {"unencodable serial number"}, i : 1..NUM_INPUT_RECORDS]
    \cup [kind : {"swap outputs", "swap commitments"}, i : 1..(NUM_OUTPUT_RECORDS - 1)]
    \cup [kind : {"unencodable commitment", "unencodable encrypted record hash"},
          i : 1..NUM_OUTPUT_RECORDS]
    \cup [kind : {"program vk", "program path", "program proof", "other circuit"},
          i : 1..NUM_TOTAL_RECORDS]
    \cup [kind : {"fault"}, i : DOMAIN FaultSteps]

IfSlot(in, d, new) ==
    IF d.i \in DOMAIN in.program_proofs
    THEN [in EXCEPT !.program_proofs[d.i] = new]
    ELSE in

Deviate(in, d) ==
    CASE d.kind = "none" -> in
      [] d.kind = "memo" -> [in EXCEPT !.memo = <<70, 71, 73>>]
      [] d.kind = "network id" -> [in EXCEPT !.network_id = 258]
      [] d.kind = "value balance" -> [in EXCEPT !.value_balance = 5]
      [] d.kind = "ledger digest" -> [in EXCEPT !.ledger_digest = <<11, 12, 14>>]
      [] d.kind = "unencodable ledger digest" -> [in EXCEPT !.ledger_digest = Unencodable]
      [] d.kind = "unencodable memo" -> [in EXCEPT !.memo = Unencodable]
      [] d.kind = "unencodable program commitment" ->
            [in EXCEPT !.program_commitment = Unencodable]
      [] d.kind = "unencodable local data root" ->
            [in EXCEPT !.local_data_root = Unencodable]
      [] d.kind = "inner circuit id" ->
            [in EXCEPT !.inner_circuit_id = InnerCircuitIDCRH(ToMinimalBits(2))]
      [] d.kind = "program commitment" ->
            [in EXCEPT !.program_commitment =
                IF IsEncodable(@) THEN [@ EXCEPT ![1] = (@ + 1) % 256] ELSE @]
      [] d.kind = "program randomness" -> [in EXCEPT !.program_randomness = 4]
      [] d.kind = "local data root" -> [in EXCEPT !.local_data_root = <<9>>]
      [] d.kind = "program proofs of another local data root" ->
            [in EXCEPT !.program_proofs =
                [i \in DOMAIN @ |-> HonestExecution(SlotKey(i - 1), i - 1, <<9>>)]]
      [] d.kind = "inner vk" -> [in EXCEPT !.inner_snark_vk = 2]
      [] d.kind = "inner proof" -> [in EXCEPT !.inner_snark_proof = InvalidProof]
      [] d.kind = "drop proof" ->
            [in EXCEPT !.program_proofs = SubSeq(@, 1, Len(@) - 1)]
      [] d.kind = "extra proof" ->
            [in EXCEPT !.program_proofs = Append(@, HonestExecution(1, Len(@), <<7>>))]
      [] d.kind = "swap serial numbers" -> [in EXCEPT !.serial_numbers = Swap(@, d.i)]
      [] d.kind = "unencodable serial number" ->
            [in EXCEPT !.serial_numbers[d.i] = Unencodable]
      [] d.kind = "swap outputs" ->
            [in EXCEPT !.commitments = Swap(@, d.i),
                       !.encrypted_record_hashes = Swap(@, d.i)]
      [] d.kind = "swap commitments" -> [in EXCEPT !.commitments = Swap(@, d.i)]
      [] d.kind = "unencodable commitment" -> [in EXCEPT !.commitments[d.i] = Unencodable]
      [] d.kind = "unencodable encrypted record hash" ->
            [in EXCEPT !.encrypted_record_hashes[d.i] = Unencodable]
      [] d.kind = "program vk" ->
            IF d.i \in DOMAIN in.program_proofs
            THEN [in EXCEPT !.program_proofs[d.i].verifying_key = MaxCircuits]
            ELSE in
      [] d.kind = "program path" ->
            IF d.i \in DOMAIN in.program_proofs
            THEN [in EXCEPT !.program_proofs[d.i].program_path.leaf_index = 1 - (@ % 2)]
            ELSE in
      [] d.kind = "program proof" ->
            IF d.i \in DOMAIN in.program_proofs
            THEN [in EXCEPT !.program_proofs[d.i].proof = InvalidProof]
            ELSE in
      [] d.kind = "other circuit" ->
            IfSlot(in, d, HonestExecution(3 - SlotKey(d.i - 1), d.i - 1, <<7>>))
      [] d.kind = "fault" -> [in EXCEPT !.fault = FaultSteps[d.i]]

\* OuterPublicVariables: the inner public variables (their program commitment
\* and local data root absent, lines 83-86) and the inner circuit identifier
PublicOf(in) ==
    [ledger_digest |-> in.ledger_digest, serial_numbers |-> in.serial_numbers,
     commitments |-> in.commitments,
     encrypted_record_hashes |-> in.encrypted_record_hashes,
     memo |-> in.memo, network_id |-> in.network_id, value_balance |-> in.value_balance,
     program_commitment |-> None, local_data_root |-> None,
     inner_circuit_id |-> in.inner_circuit_id]

\* OuterPrivateVariables
PrivateOf(in) ==
    [program_commitment |-> in.program_commitment,
     program_randomness |-> in.program_randomness,
     local_data_root |-> in.local_data_root,
     inner_snark_vk |-> in.inner_snark_vk,
     inner_snark_proof |-> in.inner_snark_proof,
     program_proofs |-> in.program_proofs]

\* OuterCircuit::new with some public and private variables; synthesis is
\* about to start on an empty constraint system
Init ==
    /\ program = BaseProgram
    /\ debug_build = FALSE
    /\ ret = NoCall
    /\ \E d1 \in Deviations, d2 \in Deviations :
          LET in == Deviate(Deviate(BaseInputs, d1), d2)
          IN /\ public = PublicOf(in)
             /\ private = PrivateOf(in)
             /\ fault = in.fault
    /\ pc = "parameters"
    /\ index = 0
    /\ cs = EmptyCS
    /\ fe = NoLocals
    /\ result = "none"
    /\ tampered = FALSE
    /\ SharedIdle

\* the values another assignment may give a variable of the finished system
Alternatives(var) ==
    CASE var.kind = "constant" -> {}
      [] var.name[1] \in {"local data root inner snark", "local data root program snark"} ->
            {<<7>>, <<9>>}
      [] var.name[1] = "commitment randomness" -> {3, 4}
      [] var.name[1] = "commitment output" ->
            {Commit(Flatten([i \in 1..n |-> ProgramId(BaseProgram)]), 3) :
                n \in (NUM_TOTAL_RECORDS - 1)..NUM_TOTAL_RECORDS}
      [] var.name[1] = "program vk" -> VerifyingKeys
      [] var.name[1] = "program path" ->
            {GetProgramPath(BaseProgram.circuits, CircuitIdOf(vk))[1] : vk \in 1..2}
      [] var.name[1] = "inner vk" -> {1, 2}
      [] var.name[1] = "inner circuit id" ->
            {InnerCircuitIDCRH(ToMinimalBits(vk)) : vk \in 1..2} \cup {0}
      [] OTHER -> {}

\* Another assignment of the finished constraint system: one variable that is
\* not a constant gets another value (a prover's witness, a verifier's input).
Tamper ==
    /\ pc = "done"
    /\ ~tampered
    /\ \E i \in DOMAIN cs.vars :
          \E v \in Alternatives(cs.vars[i]) :
              /\ v # cs.vars[i].value
              /\ cs' = [cs EXCEPT !.vars[i].value = v]
    /\ tampered' = TRUE
    /\ UNCHANGED <<programVars, sharedVars, public, private, pc, index, fe, result, fault>>

Next ==
    \/ DeclareParameters
    \/ AllocLedgerDigest
    \/ AllocSerialNumbers
    \/ AllocCommitmentsAndHashes
    \/ AllocMemo
    \/ AllocNetworkId
    \/ AllocValueBalance
    \/ AllocProgramCommitment
    \/ AllocLocalDataRootInner
    \/ AllocLocalDataRootProgram
    \/ EnforceLocalDataRootEquality
    \/ MergeInnerSnarkInput
    \/ VerifyInnerProof
    \/ CheckProgramRecord
    \/ CheckProgramCommitment
    \/ CheckInnerCircuitId
    \/ Tamper

Spec == Init /\ [][Next]_vars

----------------------------------------------------------------------------
(* Program::execute and Program::execute_blank *)

\* the positions of the registry that hold the circuit with an identifier
Registered(circuit_id) ==
    {i \in DOMAIN program.circuits : program.circuits[i].circuit_id = circuit_id}

\* C1: for a circuit identifier that is not in the registry, execute and
\* execute_blank return the missing-leaf error and no Execution, and have
\* then only looked the circuit up: no membership path was fetched and no
\* proving routine, real or placeholder, was run.
C1_MissingLeafBeforeAnyWork ==
    (ret.op \in {"execute", "execute_blank"} /\ Registered(ret.circuit_id) = {})
        => /\ ret.status = "MissingLeaf"
           /\ ret.execution = None
           /\ \A k \in DOMAIN ret.calls :
                 ret.calls[k] \notin {"get_program_path", "execute", "execute_blank"}

C1_Witness ==
    /\ ret.op = "execute"
    /\ program.circuits # <<>>
    /\ Registered(ret.circuit_id) = {}
    /\ ret.status = "MissingLeaf"

\* C2: a successful execute of a registered identifier returns an Execution
\* whose membership path verifies against program_id() for that leaf, whose
\* verifying key is that of the circuit registered under the identifier and
\* whose proof is the one the circuit's real proving routine gives for the
\* supplied variables; when the proving routine fails, execute returns an
\* error and no Execution.
C2_ExecutionOfRegisteredCircuit ==
    (ret.op = "execute" /\ Registered(ret.circuit_id) # {})
        => LET circuit == program.circuits[CHOOSE i \in Registered(ret.circuit_id) : TRUE]
               supplied == ret.args[1]
               proof == CircuitExecute(circuit, supplied.public, supplied.private)
           IN /\ ret.status = "Ok" =>
                   /\ ret.execution # None
                   /\ PathVerify(ret.execution[1].program_path, ProgramId(program),
                                 ret.circuit_id)
                   /\ ret.execution[1].verifying_key = circuit.verifying_key
                   /\ proof # None
                   /\ ret.execution[1].proof = proof[1]
                   /\ ret.execution[1].proof =
                          ProgramProve(circuit.verifying_key,
                                       ProgramInput(supplied.public.position,
                                                    PackBytes(supplied.public.local_data_root)))
              /\ proof = None => ret.status \notin {"Ok", "none"}
              /\ ret.status # "Ok" => ret.execution = None

C2_Witness ==
    /\ ret.op = "execute"
    /\ ret.status = "Ok"
    /\ Len(program.circuits) = TreeCapacity
    /\ ret.execution[1].program_path.leaf_index = TreeCapacity - 1
    /\ ret.args[1].public.position = 1

----------------------------------------------------------------------------
(* execute_outer_circuit *)

ConstraintsOfKind(c, kind) == {i \in DOMAIN c.constraints : c.constraints[i].kind = kind}

\* the constraint of a kind that occurs once
TheConstraint(c, kind) == c.constraints[CHOOSE i \in ConstraintsOfKind(c, kind) : TRUE]

\* the same constraint system with another value assigned to one variable
Reassign(c, name, v) == [c EXCEPT !.vars[VarIndex(c, name)].value = v]

Reorderings(n) == {f \in [1..n -> 1..n] : \A i, j \in 1..n : f[i] = f[j] => i = j}

Permuted(seq, f) == [i \in DOMAIN seq |-> seq[f[i]]]

\* C3: the input given to the inner proof's check is the concatenation, in
\* this order, of the encodings of the ledger digest, the serial numbers, the
\* (commitment, encrypted record hash) pairs, the program commitment, the
\* memo, the network id, the local data root and the value balance. So an
\* inner proof generated against the declared values in another order of the
\* serial numbers, or of the pairs, does not verify against it.
C3_MergedInputOrder ==
    (pc = "done" /\ ~tampered)
        => LET merged == Vals(cs, TheConstraint(cs, "inner proof").input)
               vk == private.inner_snark_vk
               against(pub) == InnerProve(vk, InnerPublicInput(pub, private.program_commitment,
                                                               private.local_data_root))
           IN /\ merged = InnerPublicInput(public, private.program_commitment,
                                           private.local_data_root)
              /\ \A f \in Reorderings(Len(public.serial_numbers)) :
                    Permuted(public.serial_numbers, f) # public.serial_numbers
                        => ~InnerVerify(vk, merged,
                               against([public EXCEPT !.serial_numbers = Permuted(@, f)]))
              /\ \A f \in Reorderings(Len(public.commitments)) :
                    (Permuted(public.commitments, f) # public.commitments
                        \/ Permuted(public.encrypted_record_hashes, f)
                               # public.encrypted_record_hashes)
                        => ~InnerVerify(vk, merged,
                               against([public EXCEPT
                                   !.commitments = Permuted(@, f),
                                   !.encrypted_record_hashes = Permuted(@, f)]))

\* the declared serial numbers are a permutation of those the inner proof was
\* generated against, and the proof's check fails
C3_Witness ==
    /\ pc = "done" /\ ~tampered
    /\ private.inner_snark_proof = BaseInputs.inner_snark_proof
    /\ public.serial_numbers # BaseInputs.serial_numbers
    /\ public.commitments = BaseInputs.commitments
    /\ ~Holds(cs, TheConstraint(cs, "inner proof"))

WitnessOnly == {"program commitment", "local data root inner snark",
                "local data root program snark", "commitment output"}

\* the variables of a kind, in allocation order
VarsOfKind(c, kind) == SelectSeq(c.vars, LAMBDA v : v.kind = kind)

\* the encodings of the inner public values other than the two witnesses
DeclaredEncodings ==
    Flatten(<<
        PackBytes(public.ledger_digest),
        Flatten([i \in DOMAIN public.serial_numbers |-> PackBytes(public.serial_numbers[i])]),
        Flatten([i \in DOMAIN public.commitments |->
                    PackBytes(public.commitments[i])
                        \o PackBytes(public.encrypted_record_hashes[i])]),
        PackBytes(public.memo),
        PackBytes(IntToLeBytes(public.network_id, 2)),
        PackBytes(IntToLeBytes(public.value_balance, 8)) >>)

\* C4: the program commitment and the local data root, in each of their
\* allocations, are witnesses and never public inputs, though their elements
\* are part of the merged input of the inner proof; each field element of the
\* other inner public values is a public input slot of its own.
C4_WitnessOnlyValues ==
    /\ \A i \in DOMAIN cs.vars :
          cs.vars[i].name[1] \in WitnessOnly => cs.vars[i].kind = "witness"
    /\ pc = "done"
          => LET slots == SelectSeq(cs.vars, LAMBDA v : v.kind = "input"
                                                  /\ v.name[1] # "inner circuit id")
             IN /\ WitnessOnly \subseteq {cs.vars[i].name[1] : i \in DOMAIN cs.vars}
                /\ \A i \in DOMAIN cs.vars :
                      cs.vars[i].name[1] \in {"program commitment",
                                              "local data root inner snark"}
                          => cs.vars[i].name \in Range(fe.inner_snark_input)
                /\ Len(slots) = Len(DeclaredEncodings)
                /\ ~tampered => [i \in DOMAIN slots |-> slots[i].value] = DeclaredEncodings
                /\ Cardinality({slots[i].name : i \in DOMAIN slots}) = Len(slots)

C4_Witness ==
    /\ pc = "done" /\ result = "Ok"
    /\ Len(VarsOfKind(cs, "input")) > 1 + Len(public.serial_numbers)
    /\ Len(fe.program_commitment_fe) > 1

\* C5: the finished system is satisfied only if the bits of the inner
\* allocation of the local data root equal the bits of the program
\* allocation; an assignment that gives the two allocations different values
\* does not satisfy it, even when the inner proof and the program proofs verify.
C5_LocalDataRootAllocationsAgree ==
    pc = "done"
        => LET inner == Vals(cs, FieldNames(<<"local data root inner snark", 0>>,
                                            Len(fe.local_data_root_fe_inner_snark)))
               prog == Vals(cs, FieldNames(<<"local data root program snark", 0>>,
                                           Len(fe.local_data_root_fe_program_snark)))
           IN /\ Satisfied(cs) => ToBitsLE(inner) = ToBitsLE(prog)
              /\ inner # prog => ~Satisfied(cs)

\* the two allocations differ, and every proof verifies
C5_Witness ==
    /\ pc = "done"
    /\ Val(cs, <<"local data root inner snark", 0, 0>>)
           # Val(cs, <<"local data root program snark", 0, 0>>)
    /\ \A i \in DOMAIN cs.constraints :
          cs.constraints[i].kind \in {"inner proof", "program proof"}
              => Holds(cs, cs.constraints[i])
    /\ ConstraintsOfKind(cs, "program proof") # {}
    /\ ~Satisfied(cs)

\* the slots whose program proofs the run checked
CheckedSlots == 0..(Min(Len(private.program_proofs), NUM_TOTAL_RECORDS) - 1)

\* C6: the finished system is satisfied only if the commitment, under the
\* witness randomness, to the concatenation in slot order of the candidate
\* program identifiers of all records (each the root recomputed from the
\* record's path and the hash of its verifying key) equals the witness
\* program commitment; with one record's verifying key changed and everything
\* else kept, the commitment check fails.
C6_ProgramCommitmentBinds ==
    pc = "done"
        => LET ids(c) == [k \in 1..Cardinality(CheckedSlots) |->
                             ClaimedProgramIdBytes(Val(c, <<"program vk", k - 1, 0>>),
                                                   Val(c, <<"program path", k - 1, 0>>))]
               bound(c) == Commit(Flatten(ids(c)), Val(c, <<"commitment randomness", 0, 0>>))
                               = Val(c, <<"commitment output", 0, 0>>)
           IN /\ Satisfied(cs) => bound(cs)
              /\ bound(cs) <=> Holds(cs, TheConstraint(cs, "program commitment"))
              /\ Holds(cs, TheConstraint(cs, "program commitment"))
                    => \A k \in CheckedSlots : \A vk \in VerifyingKeys :
                          LET changed == Reassign(cs, <<"program vk", k, 0>>, vk)
                          IN vk # Val(cs, <<"program vk", k, 0>>)
                                => /\ ~Holds(changed, TheConstraint(changed, "program commitment"))
                                   /\ ~Satisfied(changed)

C6_Witness ==
    /\ pc = "done"
    /\ Satisfied(cs)
    /\ Cardinality(CheckedSlots) = NUM_TOTAL_RECORDS
    /\ NUM_TOTAL_RECORDS > 1

\* C7: the finished system is satisfied only if the hash of the minimal bits
\* of the inner verifying key, the key the inner proof is checked with, equals
\* the inner circuit identifier, a public input; no other value of that public
\* input satisfies a system that the declared one satisfies.
C7_InnerCircuitIdBinds ==
    pc = "done"
        => LET id == <<"inner circuit id", 0, 0>>
               key == TheConstraint(cs, "inner proof").vk
           IN /\ cs.vars[VarIndex(cs, id)].kind = "input"
              /\ Satisfied(cs) => InnerCircuitIDCRH(ToMinimalBits(Val(cs, key))) = Val(cs, id)
              /\ Satisfied(cs) => \A other \in 0..10 :
                                     other # Val(cs, id) => ~Satisfied(Reassign(cs, id, other))

C7_Witness ==
    /\ pc = "done"
    /\ Satisfied(cs)
    /\ ~tampered

\* C8: in a run that completes successfully, the program proofs of exactly
\* NUM_TOTAL_RECORDS records were checked (root recomputed, proof verified,
\* program identifier part of the commitment's input), whatever the length of
\* the list of program proofs.
C8_AllRecordsChecked ==
    (pc = "done" /\ result = "Ok")
        => /\ Cardinality(ConstraintsOfKind(cs, "program proof")) = NUM_TOTAL_RECORDS
           /\ Len(TheConstraint(cs, "program commitment").ids) = NUM_TOTAL_RECORDS

\* the values execute_outer_circuit encodes, in the order it encodes them
EncodedValues ==
    <<[name |-> "ledger digest", var |-> public.ledger_digest]>>
    \o [i \in DOMAIN public.serial_numbers |->
           [name |-> "serial number", var |-> public.serial_numbers[i]]]
    \o Flatten([i \in DOMAIN public.commitments |->
           <<[name |-> "commitment", var |-> public.commitments[i]],
             [name |-> "encrypted_record_hash", var |-> public.encrypted_record_hashes[i]]>>])
    \o <<[name |-> "memo", var |-> public.memo],
         [name |-> "network id", var |-> IntToLeBytes(public.network_id, 2)],
         [name |-> "value balance", var |-> IntToLeBytes(public.value_balance, 8)],
         [name |-> "program commitment", var |-> private.program_commitment],
         [name |-> "local data root inner snark", var |-> private.local_data_root],
         [name |-> "local data root program snark", var |-> private.local_data_root]>>

Missing == {i \in DOMAIN EncodedValues : ~IsEncodable(EncodedValues[i].var)}

\* the kinds of the constraints of a run in which every step ran
AllChecks ==
    <<"local data root equality", "inner proof">>
    \o [k \in 1..Cardinality(CheckedSlots) |-> "program proof"]
    \o <<"program commitment", "inner circuit id">>

C9_Outcomes ==
    /\ result \in {"none", "Ok", "AssignmentMissing", "SynthesisError"}
    /\ result = "Ok" <=> pc = "done"
    /\ result \in {"AssignmentMissing", "SynthesisError"} <=> pc = "aborted"
    /\ pc = "done"
          => /\ [i \in DOMAIN cs.constraints |-> cs.constraints[i].kind] = AllChecks
             /\ Missing = {}
             /\ fault \in Range(FaultSteps) => (fault = "programs" /\ CheckedSlots = {})
    /\ result = "AssignmentMissing"
          => /\ Missing # {}
             /\ cs.constraints = <<>>
             /\ LET first == CHOOSE i \in Missing : \A j \in Missing : i <= j
                IN \A k \in DOMAIN cs.vars :
                      cs.vars[k].kind # "constant"
                          => \E j \in 1..(first - 1) :
                                EncodedValues[j].name = cs.vars[k].name[1]
    /\ result = "SynthesisError"
          => /\ fault \in Range(FaultSteps)
             /\ "inner circuit id" \notin {cs.vars[k].name[1] : k \in DOMAIN cs.vars}

Present == Missing = {} /\ fault = "none"

\* C10: when every required value is present the run returns success, whether
\* or not the local data root equality, the inner proof, the program proofs,
\* the program commitment or the inner circuit identifier check is violated:
\* a violated check is a constraint that does not hold, never an error.
C10_ViolatedChecksReturnSuccess ==
    Present => /\ pc # "aborted"
               /\ result \in {"none", "Ok"}
               /\ pc = "done" => result = "Ok"
               /\ pc # "done" => ENABLED Next

\* success, with the inner proof's check and the commitment check violated
C10_Witness ==
    /\ pc = "done" /\ result = "Ok" /\ ~tampered
    /\ ~Holds(cs, TheConstraint(cs, "inner proof"))
    /\ ~Holds(cs, TheConstraint(cs, "program commitment"))
    /\ Holds(cs, TheConstraint(cs, "inner circuit id"))

\* what the operation caller t has returned from yields on the registry as
\* it is now, taken in one piece
ResultNow(t) ==
    LET c == callers[t] IN
    CASE c.op = "program_id" -> ProgramId(program)
      [] c.op = "contains_circuit" -> ContainsCircuit(program.circuits, c.circuit_id)
      [] c.op = "get_circuit" -> GetCircuit(program.circuits, c.circuit_id)
      [] c.op = "find_circuit_by_index" -> FindCircuitByIndex(program.circuits, c.circuit_id)
      [] c.op = "clone" -> program
      [] c.op = "execute" ->
            [ExecuteCall(program, debug_build, c.circuit_id,
                         c.args[1].public, c.args[1].private) EXCEPT !.args = c.args]
      [] c.op = "execute_blank" -> ExecuteBlankCall(program, debug_build, c.circuit_id)

\* the callers that have returned from operation `op`
ReturnedFrom(op) == {t \in Callers : callers[t].pc = "returned" /\ callers[t].op = op}

\* every result a caller holds is the one the registry gives now, however the
\* calls were interleaved; two execute_blank results for one registered
\* circuit carry the same membership path and the same verifying key
C11_StableResults ==
    /\ strong_count = 1 + Cardinality({t \in Callers : callers[t].cloned})
    /\ \A t \in Callers : callers[t].pc = "returned" => callers[t].out = ResultNow(t)
    /\ \A t \in ReturnedFrom("execute_blank"), u \in ReturnedFrom("execute_blank") :
          (callers[t].circuit_id = callers[u].circuit_id
              /\ Registered(callers[t].circuit_id) # {})
          => /\ callers[t].out.status = "Ok" /\ callers[u].out.status = "Ok"
             /\ callers[t].out.execution[1].program_path
                    = callers[u].out.execution[1].program_path
             /\ callers[t].out.execution[1].verifying_key
                    = callers[u].out.execution[1].verifying_key

\* C11: once Program::new has returned, no operation of Program (program_id,
\* contains_circuit, get_circuit, find_circuit_by_index, execute,
\* execute_blank, clone), run by concurrent callers in any interleaving,
\* changes the registry: the program identifier and every lookup stay what
\* they were, and two execute_blank calls for the same registered circuit
\* return the same membership path and the same verifying key.
C11_RegistryNeverChanges ==
    /\ []C11_StableResults
    /\ [][/\ program' = program
          /\ ProgramId(program') = ProgramId(program)
          /\ \A circuit_id \in CircuitIds :
                GetCircuit(program'.circuits, circuit_id)
                    = GetCircuit(program.circuits, circuit_id)]_vars

\* two callers hold execute_blank results for the same registered circuit,
\* one of them through a clone of the program
C11_Witness ==
    /\ ReturnedFrom("execute_blank") = Callers
    /\ \A t \in Callers, u \in Callers : callers[t].circuit_id = callers[u].circuit_id
    /\ \A t \in Callers : callers[t].out.status = "Ok"
    /\ strong_count = 2

\* the slot a program-proof check belongs to: the place in program_proofs of
\* the proof it verifies
SlotOf(con) == con.proof[2]

\* C12: the program proof of the record in slot i (zero-based place in
\* program_proofs) is verified against the input made of one constant scalar
\* equal to i followed by the program-domain local data root: with the slot's
\* key, exactly the proof of position i over that root passes; two slots never
\* share a position value; and every slot uses the one program-domain
\* local-data-root variable that is constrained equal to the inner-domain one,
\* itself part of the inner proof's input.
C12_SlotPositionAndSharedRoot ==
    LET checks == ConstraintsOfKind(cs, "program proof")
        root == fe.local_data_root_fe_program_snark
    IN /\ pc = "programs" => Cardinality(checks) = index
       /\ \A k \in checks :
             LET con == cs.constraints[k]
                 i == SlotOf(con)
                 equality == TheConstraint(cs, "local data root equality")
             IN /\ i + 1 \in DOMAIN private.program_proofs
                /\ i < NUM_TOTAL_RECORDS
                /\ Val(cs, con.proof) = private.program_proofs[i + 1].proof
                /\ con.vk = <<"program vk", i, 0>>
                /\ Len(con.input) = 1 + Len(root)
                /\ cs.vars[VarIndex(cs, con.input[1])].kind = "constant"
                /\ Val(cs, con.input[1]) = FieldFrom(i)
                /\ root # <<>>
                /\ SubSeq(con.input, 2, Len(con.input)) = root
                /\ equality.right = root
                /\ equality.left = fe.local_data_root_fe_inner_snark
                /\ Range(equality.left) \subseteq Range(fe.inner_snark_input)
                /\ \A position \in 0..(NUM_TOTAL_RECORDS - 1) :
                      Holds(Reassign(cs, con.proof,
                                     ProgramProve(Val(cs, con.vk),
                                                  ProgramInput(position, Vals(cs, root)))),
                            con)
                          <=> position = i
       /\ \A k1 \in checks, k2 \in checks :
             k1 # k2 => /\ SlotOf(cs.constraints[k1]) # SlotOf(cs.constraints[k2])
                        /\ Val(cs, cs.constraints[k1].input[1])
                               # Val(cs, cs.constraints[k2].input[1])

\* the loop has gone over all the records, more than one, and each record's
\* program proof passes its check
C12_Witness ==
    /\ pc = "programs"
    /\ index = NUM_TOTAL_RECORDS
    /\ NUM_TOTAL_RECORDS > 1
    /\ \A k \in ConstraintsOfKind(cs, "program proof") : Holds(cs, cs.constraints[k])
    /\ Holds(cs, TheConstraint(cs, "local data root equality"))

====
